---- MODULE Spec2Model ----
(***************************************************************************)
(* Service scheduler of scheduler/service_sched.go.                        *)
(*                                                                         *)
(* One ServiceScheduler processes one evaluation (Process).  The state    *)
(* store (snapshots) and the planner are collaborators: every snapshot     *)
(* read and every SubmitPlan is a step whose answer is chosen by the       *)
(* environment.  The helpers the file calls but does not define            *)
(* (materializeTaskGroups, indexAllocs, diffAllocs, addEvictsToPlan, the   *)
(* iterators, the plan accumulator, PlanResult.FullCommit) are modelled    *)
(* from the design document.                                               *)
(***************************************************************************)
EXTENDS Integers, Sequences, FiniteSets, TLC

\* ------------------------------------------------------------------ bounds
NumNodes == 3
MaxCount == 2
MaxEvictRounds == 6
MaxBaseNodes == 20

\* ------------------------------------------------------- program constants
maxScheduleAttempts == 5

\* nil values, one per type
NoJob == [ID |-> "none"]
NoState == [nil |-> TRUE]
JobID == "job1"
EvalID == "eval1"

EvalTriggerJobRegister == "job-register"
EvalTriggerJobDeregister == "job-deregister"
EvalTriggerNodeUpdate == "node-update"
EvalTriggerOther == "rolling-update"
EvalTriggerUnset == ""
Triggers == {EvalTriggerJobRegister, EvalTriggerJobDeregister,
             EvalTriggerNodeUpdate, EvalTriggerOther, EvalTriggerUnset}

NodeStatusReady == "ready"
NodeStatusDown == "down"
AllocStatusPending == "pending"
AllocStatusRunning == "running"

\* ------------------------------------------------------------- sequences
RECURSIVE SumSeq(_)
SumSeq(s) == IF s = <<>> THEN 0 ELSE Head(s) + SumSeq(Tail(s))

RECURSIVE FlattenSeq(_)
FlattenSeq(ss) == IF ss = <<>> THEN <<>> ELSE Head(ss) \o FlattenSeq(Tail(ss))

Range(s) == {s[i] : i \in 1..Len(s)}

Perms(S) == {p \in [1..Cardinality(S) -> S] : \A i, j \in 1..Cardinality(S) : p[i] = p[j] => i = j}

\* Every ordering of the elements of sequence s (duplicates kept).
Shuffles(s) == {[i \in 1..Len(s) |-> s[p[i]]] : p \in Perms(1..Len(s))}

\* ------------------------------------------------------------ data model
\* Nodes: identity, datacenter, capacity, attributes and drivers are fixed per
\* node id; the status is what a snapshot records.
NodeIds == 1..NumNodes
NodeDC(n) == IF n = 3 THEN "dc2" ELSE "dc1"
NodeCap(n) == IF n = 2 THEN 3 ELSE 2
NodeDrivers(n) == IF n = 2 THEN {"exec", "docker"} ELSE {"exec"}
NodeKernel(n) == IF n = 3 THEN "freebsd" ELSE "linux"

Task(driver, res, constr) == [Driver |-> driver, Resources |-> res, Constraints |-> constr]
TasksA == <<Task("exec", 1, <<>>)>>
TasksB == <<Task("exec", 1, <<>>), Task("docker", 1, <<"linux">>)>>
TasksDb == <<Task("qemu", 1, <<>>)>>
WebTasks(v) == IF v = "A" THEN TasksA ELSE TasksB

TaskGroup(name, count, tasks) ==
    [Name |-> name, Count |-> count, Constraints |-> <<>>, Tasks |-> tasks]

\* The job in its two versions: version A asks for the web group on dc1;
\* version B adds a docker task to web, makes db a group of one instance
\* that no node can run, and adds dc2.
MkJob(wc, v) ==
    [ID |-> JobID, Priority |-> 50, Constraints |-> <<>>,
     Datacenters |-> IF v = "A" THEN <<"dc1">> ELSE <<"dc1", "dc2">>,
     TaskGroups |-> <<TaskGroup("web", wc, WebTasks(v)),
                      TaskGroup("db", IF v = "A" THEN 0 ELSE 1,
                                IF v = "A" THEN TasksA ELSE TasksDb)>>]

Jobs == {MkJob(wc, v) : wc \in 0..MaxCount, v \in {"A", "B"}}

\* Allocation names "<job>.<group>[<index>]" are the triples they are formatted from.
AllocName(job, tg, i) == <<job.ID, tg.Name, i>>

ExistingAlloc(id, group, i, node, job) ==
    [ID |-> id, Name |-> <<JobID, group, i>>, NodeID |-> node, JobID |-> JobID,
     Job |-> job, Resources |-> 1, Status |-> AllocStatusRunning]

OldJob == MkJob(MaxCount, "A")
a1 == ExistingAlloc("a1", "web", 0, 1, OldJob)
a2 == ExistingAlloc("a2", "web", 1, 2, OldJob)
a3 == ExistingAlloc("a3", "web", MaxCount, 2, OldJob)
a4 == ExistingAlloc("a4", "db", 0, 3, MkJob(MaxCount, "B"))
\* An allocation of another job, on node 1.
ax == [ID |-> "ax", Name |-> <<"job2", "web", 0>>, NodeID |-> 1, JobID |-> "job2",
       Job |-> NoJob, Resources |-> 1, Status |-> AllocStatusRunning]

AllocLists == {<<ax>>, <<ax, a1>>, <<a1, a2, a3>>, <<a4, ax, a1, a3>>}

\* A snapshot: the job table (the one job, or none), the allocation table and
\* the node table (status per node).  Allocation names are unique per job.
Snapshots == [job : Jobs \cup {NoJob},
              allocs : AllocLists,
              status : {[n \in NodeIds |-> IF n \in down THEN NodeStatusDown ELSE NodeStatusReady]
                           : down \in {{}, {2}}}]

\* State interface (reads of a snapshot).
GetJobByID(snap, id) == IF snap.job.ID = id THEN snap.job ELSE NoJob
AllocsByJob(snap, id) == SelectSeq(snap.allocs, LAMBDA a : a.JobID = id)
AllocsByNode(snap, n) == SelectSeq(snap.allocs, LAMBDA a : a.NodeID = n)
RECURSIVE NodesFrom(_, _, _, _)
NodesFrom(snap, dc, status, n) ==
    IF n > NumNodes THEN <<>>
    ELSE (IF NodeDC(n) = dc /\ snap.status[n] = status THEN <<n>> ELSE <<>>)
         \o NodesFrom(snap, dc, status, n + 1)
NodesByDatacenterStatus(snap, dc, status) == NodesFrom(snap, dc, status, 1)

\* ----------------------------------------------------------- diff engine
\* materializeTaskGroups: every task group expanded into Count names, in group
\* order then index order; the map sends each name to its group.
GroupNames(job, tg) == [i \in 1..tg.Count |-> AllocName(job, tg, i - 1)]
DesiredSeq(job) ==
    FlattenSeq([g \in 1..Len(job.TaskGroups) |-> GroupNames(job, job.TaskGroups[g])])
materializeTaskGroups(job) ==
    [name \in Range(DesiredSeq(job)) |->
        CHOOSE tg \in Range(job.TaskGroups) : tg.Name = name[2]]

\* indexAllocs: keyed by allocation name, the latest allocation wins.
indexAllocs(allocs) ==
    [name \in {allocs[i].Name : i \in 1..Len(allocs)} |->
        allocs[CHOOSE i \in 1..Len(allocs) :
                  /\ allocs[i].Name = name
                  /\ \A j \in 1..Len(allocs) : allocs[j].Name = name => j <= i]]

RECURSIVE SetToSeq(_)
SetToSeq(S) == IF S = {} THEN <<>>
               ELSE LET x == CHOOSE y \in S : TRUE IN <<x>> \o SetToSeq(S \ {x})

\* The group definition an allocation is compared on (the count is excluded).
GroupSpec(job, group) ==
    LET tgs == {tg \in Range(job.TaskGroups) : tg.Name = group}
    IN {[Constraints |-> tg.Constraints, Tasks |-> tg.Tasks] : tg \in tgs}
SameGroupSpec(job, alloc, group) ==
    /\ alloc.Job # NoJob
    /\ GroupSpec(alloc.Job, group) = GroupSpec(job, group)

allocNameID(name, id) == [Name |-> name, ID |-> id]
NamesOf(list) == {list[i].Name : i \in 1..Len(list)}

\* diffAllocs: place (desired, not existing), update (both, group definition
\* changed), evict (existing, not desired), ignore (both, unchanged).
diffAllocs(job, groups, indexed) ==
    LET required == SelectSeq(DesiredSeq(job), LAMBDA n : n \in DOMAIN groups)
        existing == SetToSeq(DOMAIN indexed)
        tuple(s) == [i \in 1..Len(s) |->
                        allocNameID(s[i], IF s[i] \in DOMAIN indexed
                                          THEN indexed[s[i]].ID ELSE "")]
    IN [place |-> tuple(SelectSeq(required, LAMBDA n : n \notin DOMAIN indexed)),
        update |-> tuple(SelectSeq(required, LAMBDA n :
                      n \in DOMAIN indexed /\ ~SameGroupSpec(job, indexed[n], n[2]))),
        evict |-> tuple(SelectSeq(existing, LAMBDA n : n \notin DOMAIN groups)),
        ignore |-> tuple(SelectSeq(required, LAMBDA n :
                      n \in DOMAIN indexed /\ SameGroupSpec(job, indexed[n], n[2])))]

\* ------------------------------------------------------------------ plan
NoPlan == [EvalID |-> "", Priority |-> 0,
           NodeEvict |-> [n \in NodeIds |-> <<>>],
           NodeAllocation |-> [n \in NodeIds |-> <<>>]]
MakePlan(eval, job) == [NoPlan EXCEPT !.EvalID = eval.ID, !.Priority = eval.Priority]
AppendEvict(plan, alloc) ==
    [plan EXCEPT !.NodeEvict[alloc.NodeID] = Append(@, alloc.ID)]
AppendAlloc(plan, alloc) ==
    [plan EXCEPT !.NodeAllocation[alloc.NodeID] = Append(@, alloc)]

RECURSIVE addEvictsToPlan(_, _, _)
addEvictsToPlan(plan, evicts, indexed) ==
    IF evicts = <<>> THEN plan
    ELSE addEvictsToPlan(AppendEvict(plan, indexed[Head(evicts).Name]), Tail(evicts), indexed)

PlanEvictions(plan) == FlattenSeq([n \in NodeIds |-> plan.NodeEvict[n]])
PlanAllocs(plan) == FlattenSeq([n \in NodeIds |-> plan.NodeAllocation[n]])

\* PlanResult.FullCommit: every pending allocation of the plan was committed.
\* A result carries, per node, the allocations the planner committed.
FullCommit(result, plan) ==
    LET expected == SumSeq([n \in NodeIds |-> Len(plan.NodeAllocation[n])])
        actual == SumSeq([n \in NodeIds |->
                     IF plan.NodeAllocation[n] = <<>> THEN 0 ELSE Len(result.NodeAllocation[n])])
    IN [full |-> actual = expected, expected |-> expected, actual |-> actual]

\* -------------------------------------------------------- iterator stack
\* Least k with 2^k >= n: int(math.Ceil(math.Log2(float64(n)))) for n >= 1.
RECURSIVE CeilLog2From(_, _, _)
CeilLog2From(n, k, pow) == IF pow >= n THEN k ELSE CeilLog2From(n, k + 1, 2 * pow)
CeilLog2(n) == CeilLog2From(n, 0, 1)

\* LimitFor rounding the logarithm down.
LimitForFloor(n) ==
    LET limit == 2
    IN IF n > 0 /\ CeilLog2(n + 1) - 1 > limit THEN CeilLog2(n + 1) - 1 ELSE limit

LimitFor(n) ==
    LET limit == 2
    IN IF n > 0 /\ CeilLog2(n) > limit THEN CeilLog2(n) ELSE limit

\* baseNodes: the Ready nodes of every datacenter the job lists, in list order.
\* baseNodes without the status in the query.
baseNodesAnyStatus(snap, job) ==
    FlattenSeq([d \in 1..Len(job.Datacenters) |->
                  SelectSeq([n \in 1..NumNodes |-> n],
                            LAMBDA n : NodeDC(n) = job.Datacenters[d])])

baseNodes(snap, job) ==
    FlattenSeq([d \in 1..Len(job.Datacenters) |->
                  NodesByDatacenterStatus(snap, job.Datacenters[d], NodeStatusReady)])

NoStack == [Context |-> NoState, BaseNodes |-> <<>>, Source |-> <<>>,
            JobConstraint |-> <<>>, Limit |-> 0]

\* iterStack: the evaluation context on the scheduler's snapshot, the base nodes,
\* the source in the order the random iterator visits them, the job's
\* constraints and the limit.
iterStack(snap, job, order) ==
    [Context |-> snap, BaseNodes |-> baseNodes(snap, job), Source |-> order,
     JobConstraint |-> job.Constraints, Limit |-> LimitFor(Len(baseNodes(snap, job)))]

\* Constraint and driver filters.
MeetsConstraints(n, constr) == \A i \in 1..Len(constr) : NodeKernel(n) = constr[i]
HasDrivers(n, drivers) == drivers \subseteq NodeDrivers(n)

\* Evaluation context: what is left of a node once the allocations existing in
\* the context's snapshot and those pending in the plan are counted.
Used(snap, n) ==
    LET ex == AllocsByNode(snap, n) IN SumSeq([i \in 1..Len(ex) |-> ex[i].Resources])
Pending(plan, n) ==
    LET pd == plan.NodeAllocation[n] IN SumSeq([i \in 1..Len(pd) |-> pd[i].Resources])
Remaining(snap, plan, n) == NodeCap(n) - Used(snap, n) - Pending(plan, n)

\* BinPack: nodes the request does not fit are dropped; the others are scored
\* by requested / remaining, weighted by the job's priority.
Fits(snap, plan, n, size) == size <= Remaining(snap, plan, n)
Score(snap, plan, n, size, priority) ==
    IF Remaining(snap, plan, n) <= 0 THEN 0
    ELSE ((size * 100) \div Remaining(snap, plan, n)) * priority

\* Limit over BinPack over the filters over the source: the first Limit nodes
\* that pass the filters and that the request fits.
LimitNext(stack, plan, drivers, constr, size) ==
    LET feasible == SelectSeq(stack.Source, LAMBDA n :
                        /\ MeetsConstraints(n, stack.JobConstraint)
                        /\ HasDrivers(n, drivers)
                        /\ MeetsConstraints(n, constr)
                        /\ Fits(stack.Context, plan, n, size))
    IN SubSeq(feasible, 1, IF Len(feasible) < stack.Limit
                           THEN Len(feasible) ELSE stack.Limit)

\* MaxScore over Limit: the best score among the nodes Limit lets through,
\* first seen wins.  <<>> when no node passes.
MaxScoreNext(stack, plan, job, drivers, constr, size) ==
    LET seen == LimitNext(stack, plan, drivers, constr, size)
        sc(n) == Score(stack.Context, plan, n, size, job.Priority)
    IN IF seen = <<>> THEN <<>>
       ELSE <<seen[CHOOSE i \in 1..Len(seen) :
                     /\ \A j \in 1..Len(seen) : sc(seen[j]) <= sc(seen[i])
                     /\ \A j \in 1..(i - 1) : sc(seen[j]) < sc(seen[i])]>>

\* ------------------------------------------------------- planAllocations
\* The totals of a task group: drivers, constraints and resources of its tasks.
GroupDrivers(tg) == {tg.Tasks[i].Driver : i \in 1..Len(tg.Tasks)}
GroupConstraints(tg) ==
    tg.Constraints \o FlattenSeq([i \in 1..Len(tg.Tasks) |-> tg.Tasks[i].Constraints])
GroupSize(tg) == SumSeq([i \in 1..Len(tg.Tasks) |-> tg.Tasks[i].Resources])

GenerateUUID(plan, name) == <<"uuid", name, Len(PlanAllocs(plan))>>

NewAllocation(plan, job, name, node, size) ==
    [ID |-> GenerateUUID(plan, name), Name |-> name, NodeID |-> node, JobID |-> job.ID,
     Job |-> job, Resources |-> size, Status |-> AllocStatusPending]

\* PlaceOne selecting against a plan without the pending allocations.
PlaceOneBlindToPlan(stack, job, plan, missing, groups) ==
    LET taskGroup == groups[missing.Name]
        size == GroupSize(taskGroup)
        option == MaxScoreNext(stack, [plan EXCEPT !.NodeAllocation = NoPlan.NodeAllocation],
                               job, GroupDrivers(taskGroup),
                               GroupConstraints(taskGroup), size)
    IN IF option = <<>> THEN plan
       ELSE AppendAlloc(plan, NewAllocation(plan, job, missing.Name, option[1], size))

\* One iteration of the loop of planAllocations, for the name `missing`.
PlaceOne(stack, job, plan, missing, groups) ==
    LET taskGroup == groups[missing.Name]
        size == GroupSize(taskGroup)
        option == MaxScoreNext(stack, plan, job, GroupDrivers(taskGroup),
                               GroupConstraints(taskGroup), size)
    IN IF option = <<>> THEN plan
       ELSE AppendAlloc(plan, NewAllocation(plan, job, missing.Name, option[1], size))

\* planAllocations giving up at the first name without a feasible node.
RECURSIVE planAllocationsStopsAtInfeasible(_, _, _, _, _)
planAllocationsStopsAtInfeasible(stack, job, plan, place, groups) ==
    IF place = <<>> THEN plan
    ELSE LET next == PlaceOne(stack, job, plan, Head(place), groups)
         IN IF next = plan THEN plan
            ELSE planAllocationsStopsAtInfeasible(stack, job, next, Tail(place), groups)

RECURSIVE planAllocations(_, _, _, _, _)
planAllocations(stack, job, plan, place, groups) ==
    IF place = <<>> THEN plan
    ELSE planAllocations(stack, job, PlaceOne(stack, job, plan, Head(place), groups),
                         Tail(place), groups)

\* ------------------------------------------------------------- scheduler
\* A ServiceScheduler processing one evaluation: the fields of the struct
\* (state), the locals of the handler in progress (attempts, job, groups, diff,
\* place, plan, stack), where it stands (pc) and what Process returned (ret).
\* The remaining fields observe the run: the planner's last answer, the
\* number of SubmitPlan calls and of those answered by a restart, the last
\* snapshot the planner handed out, the reads of the current attempt and the
\* last read with the snapshot that answered it, the stacks built, the restarts
\* of the evict-all handler, the names of the pending allocations the
\* planner committed since the scheduler last adopted a snapshot, and the
\* evictions of the evict-all handler's last plan the planner did not commit.
NoDiff == [place |-> <<>>, update |-> <<>>, evict |-> <<>>, ignore |-> <<>>]
NoAnswer == [handler |-> "none", err |-> FALSE, refresh |-> FALSE, full |-> FALSE]
NoRead == [op |-> "none", err |-> FALSE, snap |-> NoState, latest |-> NoState]

\* The job of a snapshot asks for at least one task-group instance.
HasDesired(snap) ==
    snap # NoState /\ snap.job # NoJob /\ DesiredSeq(snap.job) # <<>>

Evaluation(trigger) ==
    [ID |-> EvalID, JobID |-> JobID, TriggeredBy |-> trigger, Priority |-> 50]

NewServiceScheduler(state, eval) ==
    [eval |-> eval, pc |-> "idle", state |-> state, ret |-> "none",
     attempts |-> 0, job |-> NoJob, groups |-> <<>>, diff |-> NoDiff, diffed |-> FALSE,
     place |-> <<>>, plan |-> NoPlan, stack |-> NoStack,
     answer |-> NoAnswer, nSubmit |-> 0, nRestart |-> 0, startSubmits |-> 0,
     latest |-> state, refreshed |-> FALSE, allDesired |-> HasDesired(state),
     reads |-> {}, lastRead |-> NoRead, nStack |-> 0, rounds |-> 0, committed |-> {},
     evictsLeft |-> {}]

Return(s, ret) == [s EXCEPT !.pc = "done", !.ret = ret]

\* A read of the scheduler's snapshot, observed.
Read(s, op, err) ==
    [s EXCEPT !.reads = @ \cup {op},
              !.lastRead = [op |-> op, err |-> err, snap |-> s.state, latest |-> s.latest]]

\* s.state = newState
SetState(s, newState) == [s EXCEPT !.state = newState]

\* A restart (goto START): the locals of the attempt are dead, the next attempt
\* assigns them anew; they are shown as they are before that.
FreshAttempt(s) ==
    [s EXCEPT !.job = NoJob, !.groups = <<>>, !.diff = NoDiff, !.diffed = FALSE,
              !.place = <<>>, !.plan = NoPlan, !.stack = NoStack, !.reads = {},
              !.lastRead = NoRead, !.startSubmits = s.nSubmit, !.evictsLeft = {}]

\* What the planner answered to a SubmitPlan, observed.
Submitted(s, handler, err, newState, full) ==
    LET adopt == ~err /\ newState # NoState
    IN [s EXCEPT !.nSubmit = @ + 1,
                 !.latest = IF adopt THEN newState ELSE @,
                 !.refreshed = @ \/ (adopt /\ newState # s.latest),
                 !.allDesired = @ /\ (adopt => HasDesired(newState)),
                 !.answer = [handler |-> handler, err |-> err,
                             refresh |-> newState # NoState, full |-> full]]

\* The pending allocations the planner committed for a plan, observed: a new
\* state that is adopted starts the record anew.
CommittedNames(result) == NamesOf(FlattenSeq([n \in NodeIds |-> result.NodeAllocation[n]]))
Committed(s, err, newState, result) ==
    [s EXCEPT !.committed = IF err THEN @
                            ELSE IF newState # NoState THEN {}
                            ELSE @ \cup CommittedNames(result)]

\* The evictions of a plan the planner's result does not hold, observed.
EvictsLeft(s, err, result) ==
    [s EXCEPT !.evictsLeft =
        IF err THEN {}
        ELSE Range(PlanEvictions(s.plan))
                \ Range(FlattenSeq([n \in NodeIds |-> result.NodeEvict[n]]))]

\* ------------------------------------------------------- evictJobAllocs
RECURSIVE AppendEvicts(_, _)
AppendEvicts(plan, allocs) ==
    IF allocs = <<>> THEN plan
    ELSE AppendEvicts(AppendEvict(plan, Head(allocs)), Tail(allocs))

\* evictJobAllocsLookup evicting every allocation of the snapshot, whatever
\* its job.
evictJobAllocsLookupAllJobs(s, err) ==
    LET r == Read([s EXCEPT !.answer = NoAnswer], "AllocsByJob", err)
        allocs == s.state.allocs
    IN IF err THEN Return(r, "err_allocs")
       ELSE IF Len(allocs) = 0 THEN Return(r, "ok")
       ELSE [r EXCEPT !.pc = "evict_submit",
                      !.plan = AppendEvicts([NoPlan EXCEPT !.EvalID = s.eval.ID,
                                                           !.Priority = s.eval.Priority],
                                            allocs)]

\* START .. the plan of evictions: the allocations of the job are read; none
\* left returns success.
evictJobAllocsLookup(s, err) ==
    LET r == Read([s EXCEPT !.answer = NoAnswer], "AllocsByJob", err)
        allocs == AllocsByJob(s.state, s.eval.JobID)
    IN IF err THEN Return(r, "err_allocs")
       ELSE IF Len(allocs) = 0 THEN Return(r, "ok")
       ELSE [r EXCEPT !.pc = "evict_submit",
                      !.plan = AppendEvicts([NoPlan EXCEPT !.EvalID = s.eval.ID,
                                                           !.Priority = s.eval.Priority],
                                            allocs)]

\* evictJobAllocsSubmit without the assignment s.state = newState.
evictJobAllocsSubmitStale(s, err, newState, result) ==
    LET r == Submitted(EvictsLeft(s, err, result), "evictJobAllocs", err, newState, TRUE)
    IN IF err THEN Return(r, "err_submit")
       ELSE IF newState # NoState
            THEN [FreshAttempt(r) EXCEPT
                     !.pc = "evict_start", !.nRestart = @ + 1, !.rounds = @ + 1]
       ELSE Return(r, "ok")

\* evictJobAllocsSubmit starting over also when no new state came.
evictJobAllocsSubmitNoReturn(s, err, newState, result) ==
    LET r == Submitted(EvictsLeft(s, err, result), "evictJobAllocs", err, newState, TRUE)
    IN IF err THEN Return(r, "err_submit")
       ELSE [FreshAttempt(IF newState # NoState THEN SetState(r, newState) ELSE r) EXCEPT
                !.pc = "evict_start", !.nRestart = @ + 1, !.rounds = @ + 1]

\* SubmitPlan and what follows: an error is returned, a new state is adopted
\* and the loop restarts, anything else is success.  The planner's result is
\* dropped.
evictJobAllocsSubmit(s, err, newState, result) ==
    LET r == Submitted(EvictsLeft(s, err, result), "evictJobAllocs", err, newState, TRUE)
    IN IF err THEN Return(r, "err_submit")
       ELSE IF newState # NoState
            THEN [FreshAttempt(SetState(r, newState)) EXCEPT
                     !.pc = "evict_start", !.nRestart = @ + 1, !.rounds = @ + 1]
       ELSE Return(r, "ok")

\* ---------------------------------------------------- handleJobRegister
\* handleJobRegisterLookup with the attempt bound tested one attempt late.
handleJobRegisterLookupLateBound(s, err) ==
    IF s.attempts > maxScheduleAttempts THEN Return(s, "err_max_attempts")
    ELSE LET r == Read([s EXCEPT !.attempts = @ + 1, !.answer = NoAnswer], "GetJobByID", err)
             job == GetJobByID(s.state, s.eval.JobID)
             groups == materializeTaskGroups(job)
         IN IF err THEN Return(r, "err_job")
            ELSE IF job = NoJob THEN Return(r, "ok")
            ELSE IF Cardinality(DOMAIN groups) = 0
                 THEN [r EXCEPT !.pc = "evict_start", !.job = job]
            ELSE [r EXCEPT !.pc = "reg_allocs", !.job = job, !.groups = groups]

\* handleJobRegisterLookup without the delegation of a job without groups.
handleJobRegisterLookupNoDelegate(s, err) ==
    IF s.attempts = maxScheduleAttempts THEN Return(s, "err_max_attempts")
    ELSE LET r == Read([s EXCEPT !.attempts = @ + 1, !.answer = NoAnswer], "GetJobByID", err)
             job == GetJobByID(s.state, s.eval.JobID)
             groups == materializeTaskGroups(job)
         IN IF err THEN Return(r, "err_job")
            ELSE IF job = NoJob THEN Return(r, "ok")
            ELSE [r EXCEPT !.pc = "reg_allocs", !.job = job, !.groups = groups]

\* handleJobRegisterLookup with a missing job handled like a job without
\* groups: the job's allocations are evicted.
handleJobRegisterLookupNilEvicts(s, err) ==
    IF s.attempts = maxScheduleAttempts THEN Return(s, "err_max_attempts")
    ELSE LET r == Read([s EXCEPT !.attempts = @ + 1, !.answer = NoAnswer], "GetJobByID", err)
             job == GetJobByID(s.state, s.eval.JobID)
             groups == IF job = NoJob THEN <<>> ELSE materializeTaskGroups(job)
         IN IF err THEN Return(r, "err_job")
            ELSE IF Cardinality(DOMAIN groups) = 0
                 THEN [r EXCEPT !.pc = "evict_start", !.job = job]
            ELSE [r EXCEPT !.pc = "reg_allocs", !.job = job, !.groups = groups]

\* START .. the delegation: the attempt bound, the job lookup, the materialized
\* groups.
handleJobRegisterLookup(s, err) ==
    IF s.attempts = maxScheduleAttempts THEN Return(s, "err_max_attempts")
    ELSE LET r == Read([s EXCEPT !.attempts = @ + 1, !.answer = NoAnswer], "GetJobByID", err)
             job == GetJobByID(s.state, s.eval.JobID)
             groups == materializeTaskGroups(job)
         IN IF err THEN Return(r, "err_job")
            ELSE IF job = NoJob THEN Return(r, "ok")
            ELSE IF Cardinality(DOMAIN groups) = 0
                 THEN [r EXCEPT !.pc = "evict_start", !.job = job]
            ELSE [r EXCEPT !.pc = "reg_allocs", !.job = job, !.groups = groups]

\* handleJobRegisterDiff without the evictions of the updated allocations.
handleJobRegisterDiffKeepsUpdated(s, err) ==
    LET r == Read(s, "AllocsByJob", err)
        allocs == AllocsByJob(s.state, s.eval.JobID)
        indexed == indexAllocs(allocs)
        d == diffAllocs(s.job, s.groups, indexed)
        plan == addEvictsToPlan(MakePlan(s.eval, s.job), d.evict, indexed)
    IN IF err THEN Return(r, "err_allocs")
       ELSE IF Len(d.place) = 0 /\ Len(d.update) = 0 /\ Len(d.evict) = 0
            THEN Return([r EXCEPT !.diff = d, !.diffed = TRUE], "ok")
       ELSE [r EXCEPT !.pc = "reg_place", !.diff = d, !.diffed = TRUE,
                      !.plan = plan, !.place = d.place \o d.update]

\* handleJobRegisterDiff reading the allocations under the evaluation's id
\* instead of the job's.
handleJobRegisterDiffWrongID(s, err) ==
    LET r == Read(s, "AllocsByJob", err)
        allocs == AllocsByJob(s.state, s.eval.ID)
        indexed == indexAllocs(allocs)
        d == diffAllocs(s.job, s.groups, indexed)
        plan == addEvictsToPlan(addEvictsToPlan(MakePlan(s.eval, s.job), d.evict, indexed),
                                d.update, indexed)
    IN IF err THEN Return(r, "err_allocs")
       ELSE IF Len(d.place) = 0 /\ Len(d.update) = 0 /\ Len(d.evict) = 0
            THEN Return([r EXCEPT !.diff = d, !.diffed = TRUE], "ok")
       ELSE [r EXCEPT !.pc = "reg_place", !.diff = d, !.diffed = TRUE,
                      !.plan = plan, !.place = d.place \o d.update]

\* handleJobRegisterDiff without the fast pass.
handleJobRegisterDiffNoFastPass(s, err) ==
    LET r == Read(s, "AllocsByJob", err)
        allocs == AllocsByJob(s.state, s.eval.JobID)
        indexed == indexAllocs(allocs)
        d == diffAllocs(s.job, s.groups, indexed)
        plan == addEvictsToPlan(addEvictsToPlan(MakePlan(s.eval, s.job), d.evict, indexed),
                                d.update, indexed)
    IN IF err THEN Return(r, "err_allocs")
       ELSE [r EXCEPT !.pc = "reg_place", !.diff = d, !.diffed = TRUE,
                      !.plan = plan, !.place = d.place \o d.update]

\* handleJobRegisterDiff going on after a failed read of the allocations.
handleJobRegisterDiffIgnoresError(s, err) ==
    LET r == Read(s, "AllocsByJob", err)
        allocs == AllocsByJob(s.state, s.eval.JobID)
        indexed == indexAllocs(allocs)
        d == diffAllocs(s.job, s.groups, indexed)
        plan == addEvictsToPlan(addEvictsToPlan(MakePlan(s.eval, s.job), d.evict, indexed),
                                d.update, indexed)
    IN IF Len(d.place) = 0 /\ Len(d.update) = 0 /\ Len(d.evict) = 0
       THEN Return([r EXCEPT !.diff = d, !.diffed = TRUE], "ok")
       ELSE [r EXCEPT !.pc = "reg_place", !.diff = d, !.diffed = TRUE,
                      !.plan = plan, !.place = d.place \o d.update]

\* The allocations of the job, the diff, the fast pass, the plan with its
\* evictions, the updates joined to the placements.
handleJobRegisterDiff(s, err) ==
    LET r == Read(s, "AllocsByJob", err)
        allocs == AllocsByJob(s.state, s.eval.JobID)
        indexed == indexAllocs(allocs)
        d == diffAllocs(s.job, s.groups, indexed)
        plan == addEvictsToPlan(addEvictsToPlan(MakePlan(s.eval, s.job), d.evict, indexed),
                                d.update, indexed)
    IN IF err THEN Return(r, "err_allocs")
       ELSE IF Len(d.place) = 0 /\ Len(d.update) = 0 /\ Len(d.evict) = 0
            THEN Return([r EXCEPT !.diff = d, !.diffed = TRUE], "ok")
       ELSE [r EXCEPT !.pc = "reg_place", !.diff = d, !.diffed = TRUE,
                      !.plan = plan, !.place = d.place \o d.update]

\* handleJobRegisterPlace assembling a stack for every name it places.
handleJobRegisterPlaceStackPerName(s, errAt, order) ==
    LET r == Read(s, "NodesByDatacenterStatus", errAt > 0)
        stack == iterStack(s.state, s.job, order)
    IN IF errAt > 0 THEN Return(r, "err_stack")
       ELSE [r EXCEPT !.pc = "reg_submit", !.stack = stack, !.nStack = @ + Len(s.place),
                      !.plan = planAllocations(stack, s.job, s.plan, s.place, s.groups)]

\* The iterator stack and planAllocations.  errAt > 0: the read of the
\* errAt-th datacenter fails.  order: the order the random source visits the
\* base nodes in.
handleJobRegisterPlace(s, errAt, order) ==
    LET r == Read(s, "NodesByDatacenterStatus", errAt > 0)
        stack == iterStack(s.state, s.job, order)
    IN IF errAt > 0 THEN Return(r, "err_stack")
       ELSE [r EXCEPT !.pc = "reg_submit", !.stack = stack, !.nStack = @ + 1,
                      !.plan = planAllocations(stack, s.job, s.plan, s.place, s.groups)]

\* handleJobRegisterSubmit without the retry of a plan not fully committed.
handleJobRegisterSubmitNoRetry(s, err, newState, result) ==
    LET fc == FullCommit(result, s.plan)
        r == Submitted(Committed(s, err, newState, result),
                       "handleJobRegister", err, newState, fc.full)
    IN IF err THEN Return(r, "err_submit")
       ELSE IF newState # NoState
            THEN [FreshAttempt(SetState(r, newState)) EXCEPT
                     !.pc = "reg_start", !.nRestart = @ + 1]
       ELSE Return(r, "ok")

\* SubmitPlan and what follows: an error is returned; a new state is adopted
\* and the handler restarts; a plan not fully committed restarts; else success.
handleJobRegisterSubmit(s, err, newState, result) ==
    LET fc == FullCommit(result, s.plan)
        r == Submitted(Committed(s, err, newState, result),
                       "handleJobRegister", err, newState, fc.full)
    IN IF err THEN Return(r, "err_submit")
       ELSE IF newState # NoState
            THEN [FreshAttempt(SetState(r, newState)) EXCEPT
                     !.pc = "reg_start", !.nRestart = @ + 1]
       ELSE IF ~fc.full THEN [FreshAttempt(r) EXCEPT !.pc = "reg_start", !.nRestart = @ + 1]
       ELSE Return(r, "ok")

\* handleNodeUpdate
handleNodeUpdate(s) == Return(s, "ok")

\* Process treating every trigger it does not know as a JobRegister.
ProcessDefaultsToRegister(s) ==
    CASE s.eval.TriggeredBy = EvalTriggerJobDeregister -> [s EXCEPT !.pc = "evict_start"]
      [] s.eval.TriggeredBy = EvalTriggerNodeUpdate -> handleNodeUpdate(s)
      [] OTHER -> [s EXCEPT !.pc = "reg_start", !.attempts = 0]

\* Process: the dispatch on the evaluation's trigger.
Process(s) ==
    CASE s.eval.TriggeredBy = EvalTriggerJobRegister -> [s EXCEPT !.pc = "reg_start", !.attempts = 0]
      [] s.eval.TriggeredBy = EvalTriggerJobDeregister -> [s EXCEPT !.pc = "evict_start"]
      [] s.eval.TriggeredBy = EvalTriggerNodeUpdate -> handleNodeUpdate(s)
      [] OTHER -> Return(s, "err_trigger")

\* ----------------------------------------------------------- environment
\* What the planner may answer to a plan: per node, all of what the plan
\* holds for it (evictions and pending allocations) or nothing.
PlanNodes(plan) ==
    {n \in NodeIds : plan.NodeAllocation[n] # <<>> \/ plan.NodeEvict[n] # <<>>}
Results(plan) ==
    {[NodeAllocation |-> [n \in NodeIds |-> IF n \in ok THEN plan.NodeAllocation[n] ELSE <<>>],
      NodeEvict |-> [n \in NodeIds |-> IF n \in ok THEN plan.NodeEvict[n] ELSE <<>>]]
        : ok \in SUBSET PlanNodes(plan)}

\* The results the evict-all handler may be handed.  It drops the result, and
\* after an error or a new state nothing of it is left to observe, so the
\* result is drawn only for an answer without error and without new state.
EvictResults(plan, err, newState) ==
    IF ~err /\ newState = NoState THEN Results(plan)
    ELSE {[NodeAllocation |-> plan.NodeAllocation, NodeEvict |-> plan.NodeEvict]}

\* ------------------------------------------------------------ the system
VARIABLES sch, twin
vars == <<sch, twin>>

Idle == NewServiceScheduler(NoState, Evaluation(EvalTriggerNodeUpdate))

Init ==
    /\ \E state \in Snapshots, trigger \in Triggers :
          sch = NewServiceScheduler(state, Evaluation(trigger))
    /\ twin = Idle

DoProcess ==
    /\ sch.pc = "idle"
    /\ sch' = Process(sch)
    /\ UNCHANGED twin

RegisterLookup ==
    /\ sch.pc = "reg_start"
    /\ \E err \in BOOLEAN : sch' = handleJobRegisterLookup(sch, err)
    /\ UNCHANGED twin

RegisterDiff ==
    /\ sch.pc = "reg_allocs"
    /\ \E err \in BOOLEAN : sch' = handleJobRegisterDiff(sch, err)
    /\ UNCHANGED twin

RegisterPlace ==
    /\ sch.pc = "reg_place"
    /\ \E errAt \in 0..Len(sch.job.Datacenters), order \in Shuffles(baseNodes(sch.state, sch.job)) :
          sch' = handleJobRegisterPlace(sch, errAt, order)
    /\ UNCHANGED twin

RegisterSubmit ==
    /\ sch.pc = "reg_submit"
    /\ \E err \in BOOLEAN, newState \in Snapshots \cup {NoState}, result \in Results(sch.plan) :
          sch' = handleJobRegisterSubmit(sch, err, newState, result)
    /\ UNCHANGED twin

EvictLookup ==
    /\ sch.pc = "evict_start"
    /\ \E err \in BOOLEAN : sch' = evictJobAllocsLookup(sch, err)
    /\ UNCHANGED twin

EvictSubmit ==
    /\ sch.pc = "evict_submit"
    /\ \E err \in BOOLEAN,
          newState \in (IF sch.rounds < MaxEvictRounds THEN Snapshots ELSE {}) \cup {NoState} :
       \E result \in EvictResults(sch.plan, err, newState) :
          sch' = evictJobAllocsSubmit(sch, err, newState, result)
    /\ UNCHANGED twin

Next ==
    \/ DoProcess
    \/ RegisterLookup
    \/ RegisterDiff
    \/ RegisterPlace
    \/ RegisterSubmit
    \/ EvictLookup
    \/ EvictSubmit

Spec == Init /\ [][Next]_vars

\* ------------------------------------------------------- deregister runs
\* A JobDeregister evaluation on any snapshot.  The handler runs to
\* completion: every call to the state store and to the planner returns, so
\* a step that can be taken is taken.  The planner hands out a new state
\* MaxEvictRounds times at most.
InitEvict ==
    /\ \E state \in Snapshots :
          sch = NewServiceScheduler(state, Evaluation(EvalTriggerJobDeregister))
    /\ twin = Idle

NextEvict ==
    \/ DoProcess
    \/ EvictLookup
    \/ EvictSubmit

SpecEvict == InitEvict /\ [][NextEvict]_vars /\ WF_vars(NextEvict)

\* ------------------------------------------------------------ the limit
\* The limit of iterStack and the Limit iterator on their own, for any number
\* of base nodes up to MaxBaseNodes.  Here sch holds a stack in the making, not
\* a scheduler: the base nodes (nodes 1..n, all Ready, nothing allocated), the
\* stack built on them, and the nodes Limit let through for one request.
LimitSnapshot ==
    [job |-> NoJob, allocs |-> <<>>, status |-> [n \in 1..MaxBaseNodes |-> NodeStatusReady]]
LimitPlan == [NoPlan EXCEPT !.NodeAllocation = [n \in 1..MaxBaseNodes |-> <<>>]]
Requests == [drivers : {{"exec"}, {"docker"}, {"qemu"}}, size : 1..2]

InitLimit ==
    /\ \E n \in 0..MaxBaseNodes :
          sch = [pc |-> "nodes", nodes |-> [i \in 1..n |-> i], stack |-> NoStack,
                 request |-> [drivers |-> {}, size |-> 0], seen |-> <<>>]
    /\ twin = Idle

LimitBuild ==
    /\ sch.pc = "nodes"
    /\ sch' = [sch EXCEPT !.pc = "stack",
                          !.stack = [Context |-> LimitSnapshot, BaseNodes |-> sch.nodes,
                                     Source |-> sch.nodes, JobConstraint |-> <<>>,
                                     Limit |-> LimitFor(Len(sch.nodes))]]
    /\ UNCHANGED twin

LimitSelect ==
    /\ sch.pc = "stack"
    /\ \E req \in Requests :
          sch' = [sch EXCEPT !.pc = "selected", !.request = req,
                            !.seen = LimitNext(sch.stack, LimitPlan, req.drivers,
                                               <<>>, req.size)]
    /\ UNCHANGED twin

NextLimit ==
    \/ LimitBuild
    \/ LimitSelect

SpecLimit == InitLimit /\ [][NextLimit]_vars

\* ------------------------------------------------- register and deregister
\* Two schedulers on the same initial snapshot, in which the job exists and
\* every task group has count 0: sch processes a JobRegister evaluation and
\* twin a JobDeregister evaluation of that job.  The state store and the
\* planner answer both alike: a step both make gets one answer.  GetJobByID,
\* which only sch calls, answers the job.
ZeroCount(snap) ==
    /\ snap.job # NoJob
    /\ \A g \in 1..Len(snap.job.TaskGroups) : snap.job.TaskGroups[g].Count = 0

InitEq ==
    \E state \in Snapshots :
        /\ ZeroCount(state)
        /\ sch = NewServiceScheduler(state, Evaluation(EvalTriggerJobRegister))
        /\ twin = NewServiceScheduler(state, Evaluation(EvalTriggerJobDeregister))

EqProcess ==
    /\ sch.pc = "idle" /\ twin.pc = "idle"
    /\ sch' = Process(sch)
    /\ twin' = Process(twin)

EqRegisterLookup ==
    /\ sch.pc = "reg_start"
    /\ sch' = handleJobRegisterLookup(sch, FALSE)
    /\ UNCHANGED twin

EqEvictLookup ==
    /\ sch.pc = "evict_start" /\ twin.pc = "evict_start"
    /\ \E err \in BOOLEAN :
          /\ sch' = evictJobAllocsLookup(sch, err)
          /\ twin' = evictJobAllocsLookup(twin, err)

EqEvictSubmit ==
    /\ sch.pc = "evict_submit" /\ twin.pc = "evict_submit"
    /\ \E err \in BOOLEAN,
          newState \in (IF twin.rounds < MaxEvictRounds THEN Snapshots ELSE {}) \cup {NoState} :
       \E result \in EvictResults(twin.plan, err, newState) :
          /\ sch' = evictJobAllocsSubmit(sch, err, newState, result)
          /\ twin' = evictJobAllocsSubmit(twin, err, newState, result)

NextEq ==
    \/ EqProcess
    \/ EqRegisterLookup
    \/ EqEvictLookup
    \/ EqEvictSubmit

SpecEq == InitEq /\ [][NextEq]_vars

\* ---------------------------------------------------------------- claims
IsRegister == sch.eval.TriggeredBy = EvalTriggerJobRegister
IsDone == sch.pc = "done"
ReadErrors == {"err_job", "err_allocs", "err_stack"}

\* C1, as stated: for a job with at least one desired task-group instance in
\* every snapshot, a register run in which every SubmitPlan ended in a restart
\* (read charitably: there was one, and no snapshot read failed) has submitted exactly
\* maxScheduleAttempts plans and returns the attempts-exhausted error.
C1_AsStated ==
    (IsRegister /\ sch.allDesired /\ IsDone /\ sch.nSubmit > 0
        /\ sch.nRestart = sch.nSubmit /\ sch.ret \notin ReadErrors)
    => (sch.nSubmit = maxScheduleAttempts /\ sch.ret = "err_max_attempts")

\* C1, amended: for such a job the register handler makes at most
\* maxScheduleAttempts attempts and never submits a plan beyond that; the
\* attempts-exhausted error is returned exactly when each of the
\* maxScheduleAttempts attempts reached SubmitPlan and ended in a restart.
C1_AttemptBound ==
    (IsRegister /\ sch.allDesired)
    => /\ sch.attempts <= maxScheduleAttempts
       /\ sch.nSubmit <= maxScheduleAttempts
       /\ sch.nSubmit <= sch.attempts
       /\ (IsDone /\ sch.nRestart = maxScheduleAttempts => sch.ret = "err_max_attempts")
       /\ (sch.ret = "err_max_attempts"
              => sch.nSubmit = maxScheduleAttempts /\ sch.nRestart = maxScheduleAttempts)

C1_Witness ==
    /\ IsRegister /\ sch.allDesired /\ IsDone
    /\ sch.ret = "err_max_attempts" /\ sch.nSubmit = maxScheduleAttempts

\* C2: after a SubmitPlan of the register handler that returned no error, a
\* new state restarts the handler (whatever FullCommit would say), no new state
\* and a plan not fully committed restarts it, no new state and a full commit
\* returns success; a restart reaches the caller only as the
\* attempts-exhausted error of the top of the loop.
C2_SubmitOutcomes ==
    LET a == sch.answer
    IN (a.handler = "handleJobRegister" /\ ~a.err)
       => IF a.refresh \/ ~a.full
          THEN \/ sch.pc = "reg_start" /\ sch.ret = "none" /\ sch.plan = NoPlan
               \/ /\ IsDone /\ sch.ret = "err_max_attempts"
                  /\ sch.attempts = maxScheduleAttempts
          ELSE IsDone /\ sch.ret = "ok"

C2_Witness ==
    /\ sch.answer.handler = "handleJobRegister" /\ ~sch.answer.err
    /\ ~sch.answer.refresh /\ ~sch.answer.full
    /\ sch.pc = "reg_start" /\ sch.attempts < maxScheduleAttempts

\* C3: every read is answered by the last snapshot the planner handed out (the
\* initial one before that), the evaluation context of a plan is on it, and
\* the scheduler's snapshot changes only in a SubmitPlan step that returned a
\* new state without error, to that state.
C3_ReadsLatest ==
    /\ [](/\ sch.lastRead.op # "none" => sch.lastRead.snap = sch.lastRead.latest
          /\ sch.pc = "reg_submit" => sch.stack.Context = sch.latest
          /\ sch.state = sch.latest)
    /\ [][sch'.state # sch.state =>
            /\ sch.pc \in {"reg_submit", "evict_submit"}
            /\ sch'.answer.refresh /\ ~sch'.answer.err
            /\ sch'.state = sch'.latest]_vars

C3_Witness ==
    /\ sch.refreshed /\ sch.lastRead.op = "AllocsByJob" /\ ~sch.lastRead.err
    /\ sch.lastRead.snap = sch.latest

\* C4: an attempt of the register handler whose diff has nothing to place,
\* update or evict returns success in that attempt, with no plan built, no
\* node read and no SubmitPlan.
EmptyDiff == Len(sch.diff.place) = 0 /\ Len(sch.diff.update) = 0 /\ Len(sch.diff.evict) = 0
C4_FastPass ==
    (sch.diffed /\ EmptyDiff)
    => /\ IsDone /\ sch.ret = "ok"
       /\ sch.plan = NoPlan
       /\ sch.nSubmit = sch.startSubmits
       /\ "NodesByDatacenterStatus" \notin sch.reads

C4_Witness ==
    /\ sch.diffed /\ EmptyDiff /\ Len(sch.diff.ignore) > 0 /\ IsDone /\ sch.attempts > 1

\* C5: an attempt of the register handler in which GetJobByID answers no job
\* and no error returns success at once: no read of the job's allocations, no
\* plan, no SubmitPlan, nothing evicted.
JobMissing ==
    /\ IsRegister /\ sch.lastRead.op = "GetJobByID" /\ ~sch.lastRead.err
    /\ GetJobByID(sch.lastRead.snap, sch.eval.JobID) = NoJob
C5_MissingJob ==
    JobMissing
    => /\ IsDone /\ sch.ret = "ok"
       /\ sch.reads = {"GetJobByID"}
       /\ sch.plan = NoPlan /\ PlanEvictions(sch.plan) = <<>>
       /\ sch.nSubmit = sch.startSubmits

C5_Witness ==
    /\ JobMissing /\ IsDone /\ sch.attempts > 1
    /\ AllocsByJob(sch.state, sch.eval.JobID) # <<>>

\* C6: once the register run on a job whose groups all have count 0 has looked
\* the job up, it stands where the deregister run stands and stays there: the
\* same AllocsByJob reads answered by the same snapshot, the same plans
\* submitted, the same answers taken the same way, the same result.
AllocReadOf(s) == IF s.lastRead.op = "AllocsByJob" THEN s.lastRead ELSE NoRead
C6_RegisterZeroIsDeregister ==
    sch.pc \notin {"idle", "reg_start"}
    => /\ sch.pc = twin.pc
       /\ sch.ret = twin.ret
       /\ sch.state = twin.state
       /\ sch.plan = twin.plan
       /\ sch.nSubmit = twin.nSubmit
       /\ sch.answer = twin.answer
       /\ AllocReadOf(sch) = AllocReadOf(twin)
       /\ ("AllocsByJob" \in sch.reads) = ("AllocsByJob" \in twin.reads)

C6_Witness ==
    /\ sch.eval.TriggeredBy = EvalTriggerJobRegister
    /\ twin.eval.TriggeredBy = EvalTriggerJobDeregister
    /\ sch.pc = "done" /\ twin.pc = "done"
    /\ sch.nSubmit >= 2 /\ twin.nSubmit = sch.nSubmit
    /\ sch.ret = "ok" /\ twin.ret = "ok"

\* C7: a plan the register handler submits carries exactly one eviction for
\* every existing allocation named in evict or update, under that
\* allocation's node, and pending allocations only for names of place or
\* update, one per name at most, each Pending; placement is attempted for
\* every name of place and update.  A pure scale-down plans no placement; when
\* every existing allocation is an update, all of them are evicted and all
\* desired names are attempted.
ExistingAllocs == AllocsByJob(sch.state, sch.eval.JobID)
ExistingNames == NamesOf(ExistingAllocs)
ExpectedEvictions(n) ==
    {a.ID : a \in {x \in Range(ExistingAllocs) :
                      /\ x.NodeID = n
                      /\ x.Name \in NamesOf(sch.diff.evict) \cup NamesOf(sch.diff.update)}}
C7_PlanFromDiff ==
    sch.pc = "reg_submit"
    => /\ \A n \in NodeIds :
            /\ Range(sch.plan.NodeEvict[n]) = ExpectedEvictions(n)
            /\ Len(sch.plan.NodeEvict[n]) = Cardinality(ExpectedEvictions(n))
            /\ \A i \in 1..Len(sch.plan.NodeAllocation[n]) :
                  LET a == sch.plan.NodeAllocation[n][i]
                  IN /\ a.NodeID = n
                     /\ a.Name \in NamesOf(sch.diff.place) \cup NamesOf(sch.diff.update)
                     /\ a.Status = AllocStatusPending
       /\ Cardinality(NamesOf(PlanAllocs(sch.plan))) = Len(PlanAllocs(sch.plan))
       /\ NamesOf(sch.place) = NamesOf(sch.diff.place) \cup NamesOf(sch.diff.update)
       /\ (Len(sch.diff.place) = 0 /\ Len(sch.diff.update) = 0
              => PlanAllocs(sch.plan) = <<>> /\ PlanEvictions(sch.plan) # <<>>)
       /\ (NamesOf(sch.diff.update) = ExistingNames
              => /\ Len(PlanEvictions(sch.plan)) = Len(ExistingAllocs)
                 /\ NamesOf(sch.place) = DOMAIN sch.groups)

C7_Witness ==
    /\ sch.pc = "reg_submit"
    /\ ExistingAllocs # <<>> /\ NamesOf(sch.diff.update) = ExistingNames
    /\ PlanAllocs(sch.plan) # <<>>
    /\ Len(PlanEvictions(sch.plan)) = Len(ExistingAllocs)

\* C8: the names of place, update, evict and ignore of an attempt are pairwise
\* disjoint, none is listed twice, and together they are the materialized
\* names of the job and the names of its existing allocations; the names only
\* desired are those of place, the names only existing those of evict.
C8_DiffPartition ==
    sch.diffed
    => LET P == NamesOf(sch.diff.place)
           U == NamesOf(sch.diff.update)
           V == NamesOf(sch.diff.evict)
           G == NamesOf(sch.diff.ignore)
           D == DOMAIN sch.groups
       IN /\ P \cap U = {} /\ P \cap V = {} /\ P \cap G = {}
          /\ U \cap V = {} /\ U \cap G = {} /\ V \cap G = {}
          /\ Len(sch.diff.place) + Len(sch.diff.update) + Len(sch.diff.evict)
                + Len(sch.diff.ignore) = Cardinality(P \cup U \cup V \cup G)
          /\ P \cup U \cup V \cup G = D \cup ExistingNames
          /\ P = D \ ExistingNames
          /\ V = ExistingNames \ D
          /\ D = Range(DesiredSeq(GetJobByID(sch.state, sch.eval.JobID)))

C8_Witness ==
    /\ sch.diffed
    /\ Len(sch.diff.place) > 0 /\ Len(sch.diff.update) > 0
    /\ Len(sch.diff.evict) > 0 /\ Len(sch.diff.ignore) > 0

\* C9: every pending allocation of a plan of the register handler is bound to a
\* node that the scheduler's snapshot of that attempt has as Ready and in a
\* datacenter the job lists.
C9_PendingOnBaseNodes ==
    \A n \in NodeIds : \A i \in 1..Len(sch.plan.NodeAllocation[n]) :
        LET a == sch.plan.NodeAllocation[n][i]
        IN /\ a.NodeID = n
           /\ sch.state.status[a.NodeID] = NodeStatusReady
           /\ NodeDC(a.NodeID) \in Range(sch.job.Datacenters)

C9_Witness ==
    /\ sch.pc = "reg_submit" /\ PlanAllocs(sch.plan) # <<>>
    /\ \E n \in NodeIds : sch.state.status[n] # NodeStatusReady
    /\ \E n \in NodeIds : NodeDC(n) \notin Range(sch.job.Datacenters)

\* C10: on no node do the pending allocations of a plan exceed the node's
\* capacity less the allocations existing on it in the snapshot.
C10_Capacity ==
    sch.pc = "reg_submit"
    => \A n \in NodeIds : Pending(sch.plan, n) <= NodeCap(n) - Used(sch.state, n)

\* Two nodes carry pending allocations, and the one on m would have fit n
\* had the plan not already claimed n.
C10_Witness ==
    /\ sch.pc = "reg_submit"
    /\ \E n, m \in NodeIds :
          /\ n # m /\ Pending(sch.plan, n) > 0 /\ Len(sch.plan.NodeAllocation[m]) > 0
          /\ LET a == sch.plan.NodeAllocation[m][1]
             IN /\ a.Resources > Remaining(sch.state, sch.plan, n)
                /\ a.Resources <= NodeCap(n) - Used(sch.state, n)
                /\ HasDrivers(n, GroupDrivers(sch.groups[a.Name]))

\* C11: a failed snapshot read or a failed SubmitPlan ends Process with the
\* error of that call, in the register and in the deregister handler: the
\* step that fails returns, leaves the scheduler's snapshot as it was (also
\* when the failed SubmitPlan came with a state), and nothing follows a
\* return; the attempt of a failed read has submitted no plan.
ErrorOf(op) ==
    CASE op = "GetJobByID" -> "err_job"
      [] op = "AllocsByJob" -> "err_allocs"
      [] op = "NodesByDatacenterStatus" -> "err_stack"
      [] OTHER -> "none"
C11_ErrorsAreFatal ==
    /\ [](/\ sch.lastRead.err
                => /\ IsDone /\ sch.ret = ErrorOf(sch.lastRead.op)
                   /\ sch.nSubmit = sch.startSubmits
                   /\ sch.state = sch.lastRead.snap
          /\ sch.answer.err => IsDone /\ sch.ret = "err_submit")
    /\ [][/\ sch.pc # "done"
          /\ (sch'.lastRead.err \/ sch'.answer.err)
                => /\ sch'.state = sch.state
                   /\ sch'.pc = "done"
                   /\ sch'.nSubmit <= sch.nSubmit + 1
                   /\ sch'.nRestart = sch.nRestart]_vars

C11_Witness ==
    /\ sch.answer.err /\ sch.answer.refresh /\ sch.answer.handler = "evictJobAllocs"
    /\ IsDone /\ sch.ret = "err_submit" /\ sch.nSubmit >= 2
    /\ sch.state = sch.latest

\* C12: placement never fails: once the nodes are read the attempt submits
\* its plan.  A name of the place list that the plan holds no pending
\* allocation for has no feasible node (drivers, constraints, room left by
\* the plan), wherever it stands in the list, so every name after it was
\* still tried.  When no name has a feasible node and nothing is evicted, the
\* plan is empty, and its submission answered by no new state and a full
\* commit returns success.
Feasible(stack, plan, tg) ==
    \E n \in Range(stack.Source) :
        /\ MeetsConstraints(n, stack.JobConstraint)
        /\ HasDrivers(n, GroupDrivers(tg))
        /\ MeetsConstraints(n, GroupConstraints(tg))
        /\ Fits(stack.Context, plan, n, GroupSize(tg))
Unplaced == {i \in 1..Len(sch.place) : sch.place[i].Name \notin NamesOf(PlanAllocs(sch.plan))}
EmptyPlan == PlanAllocs(sch.plan) = <<>> /\ PlanEvictions(sch.plan) = <<>>
C12_InfeasibleSkipped ==
    /\ (sch.lastRead.op = "NodesByDatacenterStatus" /\ ~sch.lastRead.err)
          => sch.pc = "reg_submit" \/ (IsDone /\ sch.ret \in {"ok", "err_submit"})
    /\ sch.pc = "reg_submit"
          => /\ \A i \in Unplaced :
                   ~Feasible(sch.stack, sch.plan, sch.groups[sch.place[i].Name])
             /\ ((/\ Len(sch.diff.evict) = 0 /\ Len(sch.diff.update) = 0
                   /\ \A i \in 1..Len(sch.place) :
                         ~Feasible(sch.stack, MakePlan(sch.eval, sch.job),
                                   sch.groups[sch.place[i].Name]))
                  => EmptyPlan)
    /\ (/\ IsDone /\ sch.answer.handler = "handleJobRegister" /\ EmptyPlan
         /\ ~sch.answer.err /\ ~sch.answer.refresh /\ sch.answer.full)
          => sch.ret = "ok"

C12_Witness ==
    /\ IsDone /\ sch.ret = "ok" /\ sch.answer.handler = "handleJobRegister"
    /\ sch.place # <<>> /\ Unplaced = 1..Len(sch.place) /\ EmptyPlan
    /\ sch.nSubmit = sch.startSubmits + 1

\* C13: in a deregister run, an iteration whose AllocsByJob answers no
\* allocation returns success with no plan and no SubmitPlan; otherwise the
\* plan of the iteration, the one submitted, lists under each node the ids
\* of the allocations AllocsByJob answered for that node, each once, and
\* holds no pending allocation.
IsDeregister == sch.eval.TriggeredBy = EvalTriggerJobDeregister
EvictRead ==
    IsDeregister /\ sch.lastRead.op = "AllocsByJob" /\ ~sch.lastRead.err
ReadAllocs == AllocsByJob(sch.lastRead.snap, sch.eval.JobID)
ReadAllocsOn(n) == SelectSeq(ReadAllocs, LAMBDA a : a.NodeID = n)
C13_DeregisterPlan ==
    /\ (IsDeregister /\ sch.pc = "evict_submit") => EvictRead
    /\ EvictRead
          => IF Len(ReadAllocs) = 0
             THEN /\ IsDone /\ sch.ret = "ok" /\ sch.plan = NoPlan
                  /\ sch.nSubmit = sch.startSubmits
             ELSE /\ \/ sch.pc = "evict_submit" /\ sch.nSubmit = sch.startSubmits
                     \/ IsDone /\ sch.nSubmit = sch.startSubmits + 1
                  /\ \A n \in NodeIds :
                        /\ Len(sch.plan.NodeEvict[n]) = Len(ReadAllocsOn(n))
                        /\ Range(sch.plan.NodeEvict[n])
                              = {a.ID : a \in Range(ReadAllocsOn(n))}
                        /\ Cardinality(Range(sch.plan.NodeEvict[n]))
                              = Len(sch.plan.NodeEvict[n])
                  /\ PlanAllocs(sch.plan) = <<>>
                  /\ sch.plan.EvalID = sch.eval.ID

C13_Witness ==
    /\ EvictRead /\ sch.pc = "evict_submit" /\ sch.rounds >= 1
    /\ Len(ReadAllocs) >= 3
    /\ \E n \in NodeIds : Len(sch.plan.NodeEvict[n]) >= 2

\* C14: the evict-all handler never gives up on a count of attempts: a
\* SubmitPlan answered without error restarts it when a new state came,
\* however many times that happened before, and returns success when none
\* came; an AllocsByJob answering no allocation returns success.  With a
\* planner that stops handing out new states, the handler returns.
InEvict == sch.pc \in {"evict_start", "evict_submit"}
C14_DeregisterTerminates ==
    /\ [](/\ (sch.answer.handler = "evictJobAllocs" /\ ~sch.answer.err)
                => IF sch.answer.refresh
                   THEN /\ sch.pc = "evict_start" /\ sch.ret = "none"
                        /\ sch.state = sch.latest
                        /\ IsDeregister => sch.nRestart = sch.nSubmit
                   ELSE IsDone /\ sch.ret = "ok"
          /\ IsDeregister => sch.ret # "err_max_attempts" /\ sch.attempts = 0)
    /\ (InEvict ~> IsDone)

C14_Witness ==
    /\ IsDeregister /\ sch.pc = "evict_submit"
    /\ sch.nRestart > maxScheduleAttempts /\ sch.nSubmit > maxScheduleAttempts

\* C15: Process on a NodeUpdate evaluation returns success, and on an
\* evaluation whose trigger is none of JobRegister, JobDeregister and
\* NodeUpdate the unsupported-trigger error; either way in its first step,
\* with no snapshot read, no plan, no SubmitPlan and the snapshot untouched.
NotHandled ==
    sch.eval.TriggeredBy \notin {EvalTriggerJobRegister, EvalTriggerJobDeregister}
C15_Dispatch ==
    /\ []((NotHandled /\ sch.pc # "idle")
            => /\ IsDone
               /\ sch.ret = IF sch.eval.TriggeredBy = EvalTriggerNodeUpdate
                            THEN "ok" ELSE "err_trigger"
               /\ sch.reads = {} /\ sch.lastRead = NoRead
               /\ sch.plan = NoPlan /\ sch.nSubmit = 0 /\ sch.answer = NoAnswer
               /\ sch.state = sch.latest /\ ~sch.refreshed)
    /\ [][NotHandled => sch.pc = "idle" /\ sch'.pc = "done" /\ sch'.state = sch.state]_vars
    /\ []((sch.ret = "err_trigger") =>
                sch.eval.TriggeredBy \notin {EvalTriggerJobRegister, EvalTriggerJobDeregister,
                                            EvalTriggerNodeUpdate})

C15_Witness ==
    /\ IsDone /\ sch.ret = "err_trigger" /\ sch.eval.TriggeredBy = EvalTriggerUnset
    /\ AllocsByJob(sch.state, sch.eval.JobID) # <<>> /\ HasDesired(sch.state)

\* C16: the limit of a stack built on N base nodes is 2 when N is 0 and
\* otherwise the larger of 2 and the least k with 2^k >= N; the Limit
\* iterator lets through at most that many of the nodes that pass.
RECURSIVE Pow2(_)
Pow2(k) == IF k = 0 THEN 1 ELSE 2 * Pow2(k - 1)
C16_Limit ==
    sch.pc \in {"stack", "selected"}
    => LET N == Len(sch.stack.BaseNodes)
           k == sch.stack.Limit
       IN /\ N = Len(sch.nodes)
          /\ k >= 2
          /\ N = 0 => k = 2
          /\ N >= 1 => Pow2(k) >= N
          /\ k > 2 => Pow2(k - 1) < N
          /\ Len(sch.seen) <= k
          /\ Range(sch.seen) \subseteq Range(sch.stack.BaseNodes)

C16_Witness ==
    /\ sch.pc = "selected" /\ sch.stack.Limit >= 5
    /\ Len(sch.seen) = sch.stack.Limit /\ Len(sch.seen) < Len(sch.stack.BaseNodes)

\* C17, as stated: a register run assembles the iterator stack once at most,
\* however many attempts it makes.
C17_AsStated == IsRegister => sch.nStack <= 1

\* C17, amended: a register run assembles the iterator stack once in every
\* attempt that reaches placement, on the snapshot of that attempt: one
\* stack per plan submitted, never more than attempts made, and the stack
\* that placed the names of a plan is the one built in its attempt.
InRegister == sch.pc \in {"reg_start", "reg_allocs", "reg_place", "reg_submit"}
C17_StackPerAttempt ==
    /\ sch.nStack <= sch.attempts /\ sch.nStack <= maxScheduleAttempts
    /\ (InRegister /\ sch.pc # "reg_submit")
          => sch.nStack = sch.nSubmit /\ sch.stack = NoStack
    /\ sch.pc = "reg_submit"
          => /\ sch.nStack = sch.nSubmit + 1
             /\ sch.stack.Context = sch.state
             /\ sch.stack.BaseNodes = baseNodes(sch.state, sch.job)
             /\ sch.stack.Limit = LimitFor(Len(sch.stack.BaseNodes))
    /\ ~IsRegister => sch.nStack = 0

C17_Witness ==
    /\ IsRegister /\ sch.pc = "reg_submit" /\ sch.nStack >= 2 /\ sch.refreshed
    /\ Len(sch.place) >= 2 /\ Len(PlanAllocs(sch.plan)) >= 2

\* C18, as stated: no plan of a register run holds a pending allocation for
\* a name the planner committed in an earlier attempt of the run, when the
\* scheduler has adopted no snapshot since.
C18_AsStated ==
    (IsRegister /\ sch.pc = "reg_submit")
    => NamesOf(PlanAllocs(sch.plan)) \cap sch.committed = {}

\* C19, as stated: a register run calls SubmitPlan maxScheduleAttempts times
\* at most, the calls of the evict-all handler it hands over to included.
C19_AsStated == IsRegister => sch.nSubmit <= maxScheduleAttempts

\* C19, amended: the register handler itself submits maxScheduleAttempts
\* plans at most; a run that hands over to the evict-all handler submits, on
\* top of those, one plan more for every new state the planner returns to
\* that handler, and a hand-over happens only on a job without desired
\* task-group instances.
C19_SubmitBound ==
    IsRegister
    => /\ sch.nSubmit <= maxScheduleAttempts + sch.rounds
       /\ InRegister => sch.nSubmit <= maxScheduleAttempts /\ sch.rounds = 0
       /\ sch.nSubmit > sch.attempts
             => ~sch.allDesired /\ sch.nSubmit <= sch.attempts + sch.rounds

C19_Witness ==
    /\ IsRegister /\ IsDone /\ sch.ret = "ok" /\ sch.attempts >= 2
    /\ sch.nSubmit > maxScheduleAttempts /\ sch.answer.handler = "evictJobAllocs"

\* C20, as stated: a deregister run that returns success after a SubmitPlan
\* leaves no eviction of its last plan uncommitted.
C20_AsStated ==
    (IsDeregister /\ IsDone /\ sch.ret = "ok" /\ sch.answer.handler = "evictJobAllocs")
    => sch.evictsLeft = {}

====
